---- MODULE Spec2Model ----
(***************************************************************************)
(* Model of gpflow/priors.py: the eight prior distributions (Exponential,  *)
(* Gaussian, LogNormal, Gamma, InverseGamma, Laplace, Beta, Uniform),      *)
(* their constructors and their logp / sample / __str__ methods.           *)
(*                                                                         *)
(* Numbers are exact rationals [t |-> "num", n, d] in lowest terms; the    *)
(* model does not represent floating-point rounding.  Python's None, and   *)
(* the nan / inf that numpy produces, are separate values.  A numpy array  *)
(* is a sequence of such values (only one-dimensional parameter arrays     *)
(* occur).  What sample() draws is random: the model keeps the shape of    *)
(* the returned array, not its entries.                                    *)
(***************************************************************************)
EXTENDS Integers, Sequences, FiniteSets

VARIABLES prior, call, result

vars == <<prior, call, result>>

(***************************************************************************)
(* Bounds of the model.                                                    *)
(***************************************************************************)
MaxNum == 2        \* scalar arguments are n and n/2 for n in -1..MaxNum
MaxParamLen == 2   \* parameter arrays have 1..MaxParamLen entries
MaxLen == 3        \* logp inputs have 0..MaxLen entries
MaxRank == 2       \* requested sample shapes have 0..MaxRank dimensions, each 1 or 2

(***************************************************************************)
(* Values.                                                                 *)
(***************************************************************************)
None == [t |-> "none"]
NaN == [t |-> "nan"]
Inf == [t |-> "inf"]

Abs(i) == IF i < 0 THEN -i ELSE i

RECURSIVE GCD(_, _)
GCD(a, b) == IF b = 0 THEN a ELSE GCD(b, a % b)

\* the rational n/d (d # 0) in lowest terms with a positive denominator
Rat(n, d) ==
    LET g == GCD(Abs(n), Abs(d))
        s == IF d < 0 THEN -1 ELSE 1
    IN  [t |-> "num", n |-> (s * n) \div g, d |-> (s * d) \div g]

Num(i) == Rat(i, 1)

RAdd(a, b) == Rat(a.n * b.d + b.n * a.d, a.d * b.d)
RSub(a, b) == Rat(a.n * b.d - b.n * a.d, a.d * b.d)
RMul(a, b) == Rat(a.n * b.n, a.d * b.d)
RDiv(a, b) == Rat(a.n * b.d, a.d * b.n)      \* b # 0
RLt(a, b) == a.n * b.d < b.n * a.d
RLeq(a, b) == a.n * b.d <= b.n * a.d

\* the numpy arrays the model passes as arguments: k equal entries
Ones(k) == [t |-> "arr", v |-> [i \in 1..k |-> Num(1)]]

Scalars == {Rat(n, d) : n \in -1..MaxNum, d \in {1, 2}}
Arrays == {Ones(k) : k \in 1..MaxParamLen}

(***************************************************************************)
(* Outcomes of a call: a normal return, or an exception.                   *)
(***************************************************************************)
Ok(self, ret) == [status |-> "ok", self |-> self, ret |-> ret]
Raise(self, exc) == [status |-> "raise", self |-> self, exc |-> exc]

NoPrior == [cls |-> "none"]

\* np.atleast_1d(np.array(v, settings.float_type)): a scalar becomes an array
\* of one entry, None becomes [nan], an array stays what it is
atleast_1d(v) ==
    CASE v.t = "arr" -> v.v
      [] v.t = "none" -> <<NaN>>
      [] OTHER -> <<v>>

\* numpy's elementwise 1 / a
Reciprocal(a) ==
    [i \in 1..Len(a) |->
        CASE a[i].t = "num" /\ a[i].n # 0 -> RDiv(Num(1), a[i])
          [] a[i].t = "num" /\ a[i].n = 0 -> Inf
          [] a[i].t = "inf" -> Num(0)
          [] OTHER -> NaN]

(***************************************************************************)
(* What the methods call in tensorflow, numpy and gpflow.logdensities.     *)
(***************************************************************************)
\* logdensities.<f>(*args): the elementwise log-density, kept as a term
logdensities(f, args) == [t |-> "logdensity", f |-> f, args |-> args]

\* tf.reduce_sum(d): the sum over all entries, kept as a term
tf_reduce_sum(d) == [t |-> "reduce_sum", of |-> d]

\* tf.size(x): the number of entries of x
tf_size(x) == Len(x)

\* the shape of a stored parameter array: (k,)
ShapeOf(p) == <<Len(p)>>

\* the shape of a Python scalar: ()
ScalarShape == <<>>

\* s with leading dimensions of 1 added up to rank n
PadShape(s, n) ==
    [i \in 1..n |-> IF i <= n - Len(s) THEN 1 ELSE s[i - (n - Len(s))]]

\* numpy broadcasting of two shapes
Broadcast(a, b) ==
    LET n == IF Len(a) < Len(b) THEN Len(b) ELSE Len(a)
        pa == PadShape(a, n)
        pb == PadShape(b, n)
    IN  [ok |-> \A i \in 1..n : pa[i] = pb[i] \/ pa[i] = 1 \/ pb[i] = 1,
         shape |-> [i \in 1..n |-> IF pa[i] = 1 THEN pb[i] ELSE pa[i]]]

ndarray(shape) == [t |-> "ndarray", shape |-> shape]

\* the number of entries of an array of the given shape
RECURSIVE SizeOf(_)
SizeOf(shape) == IF shape = <<>> THEN 1 ELSE Head(shape) * SizeOf(Tail(shape))

\* np.random.<dist>(*params, size=shape): an array of the shape `size`, to
\* which the parameters must broadcast.  numpy releases differ on how they
\* test that: by the broadcast shape, or by its number of entries only; where
\* the two tests differ both outcomes are possible.
RECURSIVE BroadcastAll(_, _)
BroadcastAll(shapes, acc) ==
    IF shapes = <<>> THEN acc
    ELSE LET b == Broadcast(Head(shapes), acc.shape)
         IN  BroadcastAll(Tail(shapes), [ok |-> acc.ok /\ b.ok, shape |-> b.shape])

np_random_sized(paramShapes, self, size) ==
    LET b == BroadcastAll(paramShapes, [ok |-> TRUE, shape |-> size])
    IN  IF b.ok /\ b.shape = size THEN {Ok(self, ndarray(size))}
        ELSE IF b.ok /\ SizeOf(b.shape) = SizeOf(size)
        THEN {Ok(self, ndarray(size)), Raise(self, "ValueError")}
        ELSE {Raise(self, "ValueError")}

\* a + b * np.random.randn(*shape) (or rand): randn gives an array of the
\* requested shape, and the arithmetic broadcasts it against a and b
np_affine_draw(a, b, self, shape) ==
    LET m == Broadcast(b, shape)
        r == Broadcast(a, m.shape)
    IN  IF m.ok /\ r.ok THEN {Ok(self, ndarray(r.shape))}
        ELSE {Raise(self, "ValueError")}

(***************************************************************************)
(* Exponential                                                             *)
(***************************************************************************)
\* mutant of RateNotPositive: the test written `rate < 0`
RateNegative(rate) ==
    CASE rate.t = "num" -> [status |-> "ok", ret |-> RLt(rate, Num(0))]
      [] rate.t = "arr" /\ Len(rate.v) = 1 ->
            [status |-> "ok", ret |-> RLt(rate.v[1], Num(0))]
      [] OTHER -> [status |-> "raise", exc |-> "ValueError"]

\* `rate <= 0` in a Python `if`: of a scalar or a one-entry array it is the
\* comparison; the truth value of a longer array is a ValueError
RateNotPositive(rate) ==
    CASE rate.t = "num" -> [status |-> "ok", ret |-> RLeq(rate, Num(0))]
      [] rate.t = "arr" /\ Len(rate.v) = 1 ->
            [status |-> "ok", ret |-> RLeq(rate.v[1], Num(0))]
      [] OTHER -> [status |-> "raise", exc |-> "ValueError"]

\* mutant of Exponential_init: the rate is stored and never tested
Exponential_init_unchecked(rate) ==
    Ok([cls |-> "Exponential", rate |-> atleast_1d(rate)], None)

Exponential_init(rate) ==
    LET self == [cls |-> "Exponential", rate |-> atleast_1d(rate)]
        test == RateNotPositive(rate)
    IN  IF test.status = "raise" THEN Raise(NoPrior, test.exc)
        ELSE IF test.ret THEN Raise(NoPrior, "ValueError")
        ELSE Ok(self, None)

\* mutant of Exponential_logp: the reciprocal is written back to self.rate
Exponential_logp_inplace(self, x) ==
    LET scale == Reciprocal(self.rate)
    IN  Ok([self EXCEPT !.rate = scale],
           tf_reduce_sum(logdensities("exponential", <<x, scale>>)))

Exponential_logp(self, x) ==
    LET scale == Reciprocal(self.rate)
    IN  Ok(self, tf_reduce_sum(logdensities("exponential", <<x, scale>>)))

Exponential_sample(self, shape) ==
    np_random_sized(<<ShapeOf(Reciprocal(self.rate))>>, self, shape)

Exponential_str(self) == Ok(self, <<"Exp(", self.rate, ")">>)

(***************************************************************************)
(* Gaussian                                                                *)
(***************************************************************************)
Gaussian_init(mu, var) ==
    Ok([cls |-> "Gaussian", mu |-> atleast_1d(mu), var |-> atleast_1d(var)], None)

Gaussian_logp(self, x) ==
    Ok(self, tf_reduce_sum(logdensities("gaussian", <<x, self.mu, self.var>>)))

\* self.mu + np.sqrt(self.var) * np.random.randn(*shape)
Gaussian_sample(self, shape) ==
    np_affine_draw(ShapeOf(self.mu), ShapeOf(self.var), self, shape)

Gaussian_str(self) == Ok(self, <<"N(", self.mu, ",", self.var, ")">>)

(***************************************************************************)
(* LogNormal                                                               *)
(***************************************************************************)
LogNormal_init(mu, var) ==
    Ok([cls |-> "LogNormal", mu |-> atleast_1d(mu), var |-> atleast_1d(var)], None)

LogNormal_logp(self, x) ==
    Ok(self, tf_reduce_sum(logdensities("lognormal", <<x, self.mu, self.var>>)))

\* np.exp(self.mu + np.sqrt(self.var) * np.random.randn(*shape))
LogNormal_sample(self, shape) ==
    np_affine_draw(ShapeOf(self.mu), ShapeOf(self.var), self, shape)

LogNormal_str(self) == Ok(self, <<"logN(", self.mu, ",", self.var, ")">>)

(***************************************************************************)
(* Gamma                                                                   *)
(***************************************************************************)
\* mutant of Gamma_init: the assertion written `shape is None or scale is None`
Gamma_init_assert_or(shape, scale, mu, var) ==
    IF mu # None /\ var # None
    THEN IF ~(shape = None \/ scale = None) THEN Raise(NoPrior, "AssertionError")
         ELSE IF var.n = 0 \/ mu.n = 0 THEN Raise(NoPrior, "ZeroDivisionError")
         ELSE Ok([cls |-> "Gamma",
                  shape |-> atleast_1d(RDiv(RMul(mu, mu), var)),
                  scale |-> atleast_1d(RDiv(var, mu))], None)
    ELSE Ok([cls |-> "Gamma",
             shape |-> atleast_1d(shape),
             scale |-> atleast_1d(scale)], None)

\* mutant of Gamma_init: the scale written `mu / var`
Gamma_init_scale_swapped(shape, scale, mu, var) ==
    IF mu # None /\ var # None
    THEN IF ~(shape = None /\ scale = None) THEN Raise(NoPrior, "AssertionError")
         ELSE IF var.n = 0 THEN Raise(NoPrior, "ZeroDivisionError")
         ELSE Ok([cls |-> "Gamma",
                  shape |-> atleast_1d(RDiv(RMul(mu, mu), var)),
                  scale |-> atleast_1d(RDiv(mu, var))], None)
    ELSE Ok([cls |-> "Gamma",
             shape |-> atleast_1d(shape),
             scale |-> atleast_1d(scale)], None)

\* mu and var are Python scalars here: dividing by zero raises
Gamma_init(shape, scale, mu, var) ==
    IF mu # None /\ var # None
    THEN IF ~(shape = None /\ scale = None) THEN Raise(NoPrior, "AssertionError")
         ELSE IF var.n = 0 \/ mu.n = 0 THEN Raise(NoPrior, "ZeroDivisionError")
         ELSE Ok([cls |-> "Gamma",
                  shape |-> atleast_1d(RDiv(RMul(mu, mu), var)),
                  scale |-> atleast_1d(RDiv(var, mu))], None)
    ELSE Ok([cls |-> "Gamma",
             shape |-> atleast_1d(shape),
             scale |-> atleast_1d(scale)], None)

Gamma_logp(self, x) ==
    Ok(self, tf_reduce_sum(logdensities("gamma", <<x, self.shape, self.scale>>)))

Gamma_sample(self, shape) ==
    np_random_sized(<<ShapeOf(self.shape), ShapeOf(self.scale)>>, self, shape)

Gamma_str(self) == Ok(self, <<"Ga(", self.shape, ",", self.scale, ")">>)

(***************************************************************************)
(* InverseGamma                                                            *)
(***************************************************************************)
\* mutant of InverseGamma_init: the shape written `1.0 + mu ** 2 / var`
InverseGamma_init_shape_one(shape, scale, mu, var) ==
    IF mu # None /\ var # None
    THEN IF ~(shape = None /\ scale = None) THEN Raise(NoPrior, "AssertionError")
         ELSE IF var.n = 0 THEN Raise(NoPrior, "ZeroDivisionError")
         ELSE Ok([cls |-> "InverseGamma",
                  shape |-> atleast_1d(RAdd(Num(1), RDiv(RMul(mu, mu), var))),
                  scale |-> atleast_1d(RMul(mu, RAdd(Num(1), RDiv(RMul(mu, mu), var))))],
                 None)
    ELSE Ok([cls |-> "InverseGamma",
             shape |-> atleast_1d(shape),
             scale |-> atleast_1d(scale)], None)

\* mutant of InverseGamma_init: the guard written `mu is not None or var is not
\* None`; arithmetic on None is a TypeError
InverseGamma_init_guard_or(shape, scale, mu, var) ==
    IF mu # None \/ var # None
    THEN IF ~(shape = None /\ scale = None) THEN Raise(NoPrior, "AssertionError")
         ELSE IF mu = None \/ var = None THEN Raise(NoPrior, "TypeError")
         ELSE IF var.n = 0 THEN Raise(NoPrior, "ZeroDivisionError")
         ELSE Ok([cls |-> "InverseGamma",
                  shape |-> atleast_1d(RAdd(Num(2), RDiv(RMul(mu, mu), var))),
                  scale |-> atleast_1d(RMul(mu, RAdd(Num(1), RDiv(RMul(mu, mu), var))))],
                 None)
    ELSE Ok([cls |-> "InverseGamma",
             shape |-> atleast_1d(shape),
             scale |-> atleast_1d(scale)], None)

InverseGamma_init(shape, scale, mu, var) ==
    IF mu # None /\ var # None
    THEN IF ~(shape = None /\ scale = None) THEN Raise(NoPrior, "AssertionError")
         ELSE IF var.n = 0 THEN Raise(NoPrior, "ZeroDivisionError")
         ELSE Ok([cls |-> "InverseGamma",
                  shape |-> atleast_1d(RAdd(Num(2), RDiv(RMul(mu, mu), var))),
                  scale |-> atleast_1d(RMul(mu, RAdd(Num(1), RDiv(RMul(mu, mu), var))))],
                 None)
    ELSE Ok([cls |-> "InverseGamma",
             shape |-> atleast_1d(shape),
             scale |-> atleast_1d(scale)], None)

\* the module imports `logdensities`; the name `densities` is bound nowhere
InverseGamma_logp(self, x) == Raise(self, "NameError")

\* 1.0 / np.random.gamma(self.shape, 1.0 / self.scale, size=shape)
InverseGamma_sample(self, shape) ==
    np_random_sized(<<ShapeOf(self.shape), ShapeOf(Reciprocal(self.scale))>>, self, shape)

InverseGamma_str(self) == Ok(self, <<"InvGa(", self.shape, ",", self.scale, ")">>)

(***************************************************************************)
(* Laplace                                                                 *)
(***************************************************************************)
Laplace_init(mu, sigma) ==
    Ok([cls |-> "Laplace", mu |-> atleast_1d(mu), sigma |-> atleast_1d(sigma)], None)

Laplace_logp(self, x) ==
    Ok(self, tf_reduce_sum(logdensities("laplace", <<x, self.mu, self.sigma>>)))

Laplace_sample(self, shape) ==
    np_random_sized(<<ShapeOf(self.mu), ShapeOf(self.sigma)>>, self, shape)

Laplace_str(self) == Ok(self, <<"Lap.(", self.mu, ",", self.sigma, ")">>)

(***************************************************************************)
(* Beta                                                                    *)
(***************************************************************************)
Beta_init(a, b) ==
    Ok([cls |-> "Beta", a |-> atleast_1d(a), b |-> atleast_1d(b)], None)

Beta_logp(self, x) ==
    Ok(self, tf_reduce_sum(logdensities("beta", <<x, self.a, self.b>>)))

Beta_sample(self, shape) ==
    np_random_sized(<<ShapeOf(self.a), ShapeOf(self.b)>>, self, shape)

Beta_str(self) == Ok(self, <<"Beta(", self.a, ",", self.b, ")">>)

(***************************************************************************)
(* Uniform: lower and upper are stored as given (Python scalars here).     *)
(***************************************************************************)
Uniform_init(lower, upper) ==
    Ok([cls |-> "Uniform", lower |-> lower, upper |-> upper], None)

\* a real number coef * log(arg), kept as a term
LogTerm(coef, arg) == [t |-> "log", coef |-> coef, arg |-> arg]

\* - np.log(self.upper - self.lower)
log_height(self) == LogTerm(Num(-1), RSub(self.upper, self.lower))

RECURSIVE SumOf(_)
SumOf(x) == IF x = <<>> THEN Num(0) ELSE RAdd(Head(x), SumOf(Tail(x)))

\* mutant of Uniform_logp: the height multiplied by the sum of the entries of x
Uniform_logp_sum(self, x) ==
    LET h == log_height(self)
    IN  Ok(self, LogTerm(RMul(h.coef, SumOf(x)), h.arg))

\* self.log_height * tf.cast(tf.size(x), settings.float_type)
Uniform_logp(self, x) ==
    LET h == log_height(self)
    IN  Ok(self, LogTerm(RMul(h.coef, Num(tf_size(x))), h.arg))

\* self.lower + (self.upper - self.lower) * np.random.rand(*shape)
Uniform_sample(self, shape) ==
    np_affine_draw(ScalarShape, ScalarShape, self, shape)

Uniform_str(self) == Ok(self, <<"U(", self.lower, ",", self.upper, ")">>)

(***************************************************************************)
(* Method dispatch on the class of the object.  sample gives the set of    *)
(* its possible outcomes.                                                  *)
(***************************************************************************)
logp(self, x) ==
    CASE self.cls = "Exponential" -> Exponential_logp(self, x)
      [] self.cls = "Gaussian" -> Gaussian_logp(self, x)
      [] self.cls = "LogNormal" -> LogNormal_logp(self, x)
      [] self.cls = "Gamma" -> Gamma_logp(self, x)
      [] self.cls = "InverseGamma" -> InverseGamma_logp(self, x)
      [] self.cls = "Laplace" -> Laplace_logp(self, x)
      [] self.cls = "Beta" -> Beta_logp(self, x)
      [] self.cls = "Uniform" -> Uniform_logp(self, x)

sample(self, shape) ==
    CASE self.cls = "Exponential" -> Exponential_sample(self, shape)
      [] self.cls = "Gaussian" -> Gaussian_sample(self, shape)
      [] self.cls = "LogNormal" -> LogNormal_sample(self, shape)
      [] self.cls = "Gamma" -> Gamma_sample(self, shape)
      [] self.cls = "InverseGamma" -> InverseGamma_sample(self, shape)
      [] self.cls = "Laplace" -> Laplace_sample(self, shape)
      [] self.cls = "Beta" -> Beta_sample(self, shape)
      [] self.cls = "Uniform" -> Uniform_sample(self, shape)

str(self) ==
    CASE self.cls = "Exponential" -> Exponential_str(self)
      [] self.cls = "Gaussian" -> Gaussian_str(self)
      [] self.cls = "LogNormal" -> LogNormal_str(self)
      [] self.cls = "Gamma" -> Gamma_str(self)
      [] self.cls = "InverseGamma" -> InverseGamma_str(self)
      [] self.cls = "Laplace" -> Laplace_str(self)
      [] self.cls = "Beta" -> Beta_str(self)
      [] self.cls = "Uniform" -> Uniform_str(self)

(***************************************************************************)
(* The state machine: a caller constructs one prior (prior is NoPrior      *)
(* until a constructor returns, and stays so if it raises), then calls the *)
(* object's methods in any order.  call is the last call made and result   *)
(* what it returned or raised.                                             *)
(***************************************************************************)
SeqsUpTo(S, n) == UNION {[1..k -> S] : k \in 0..n}

XVals == {Num(-1), Num(1)}
Inputs == SeqsUpTo(XVals, MaxLen)
Shapes == SeqsUpTo({1, 2}, MaxRank)
Params == Scalars \cup Arrays
OptParams == Params \cup {None}
OptScalars == Scalars \cup {None}

Outcome(r) ==
    IF r.status = "ok" THEN [status |-> "ok", ret |-> r.ret]
    ELSE [status |-> "raise", exc |-> r.exc]

Init ==
    /\ prior = NoPrior
    /\ call = [op |-> "none"]
    /\ result = [status |-> "ok", ret |-> None]

\* p = Cls(args): the caller holds an object only if __init__ returned
Handed(r) == IF r.status = "ok" THEN r.self ELSE NoPrior

NewExponential ==
    /\ call.op = "none"
    /\ \E rate \in Params :
        LET r == Exponential_init(rate)
        IN  /\ call' = [op |-> "init", cls |-> "Exponential", args |-> [rate |-> rate]]
            /\ result' = Outcome(r)
            /\ prior' = Handed(r)

NewGaussian ==
    /\ call.op = "none"
    /\ \E mu, var \in Params :
        LET r == Gaussian_init(mu, var)
        IN  /\ call' = [op |-> "init", cls |-> "Gaussian",
                        args |-> [mu |-> mu, var |-> var]]
            /\ result' = Outcome(r)
            /\ prior' = Handed(r)

NewLogNormal ==
    /\ call.op = "none"
    /\ \E mu, var \in Params :
        LET r == LogNormal_init(mu, var)
        IN  /\ call' = [op |-> "init", cls |-> "LogNormal",
                        args |-> [mu |-> mu, var |-> var]]
            /\ result' = Outcome(r)
            /\ prior' = Handed(r)

NewGamma ==
    /\ call.op = "none"
    /\ \E shape, scale \in OptParams, mu, var \in OptScalars :
        LET r == Gamma_init(shape, scale, mu, var)
        IN  /\ call' = [op |-> "init", cls |-> "Gamma",
                        args |-> [shape |-> shape, scale |-> scale,
                                  mu |-> mu, var |-> var]]
            /\ result' = Outcome(r)
            /\ prior' = Handed(r)

NewInverseGamma ==
    /\ call.op = "none"
    /\ \E shape, scale \in OptParams, mu, var \in OptScalars :
        LET r == InverseGamma_init(shape, scale, mu, var)
        IN  /\ call' = [op |-> "init", cls |-> "InverseGamma",
                        args |-> [shape |-> shape, scale |-> scale,
                                  mu |-> mu, var |-> var]]
            /\ result' = Outcome(r)
            /\ prior' = Handed(r)

NewLaplace ==
    /\ call.op = "none"
    /\ \E mu, sigma \in Params :
        LET r == Laplace_init(mu, sigma)
        IN  /\ call' = [op |-> "init", cls |-> "Laplace",
                        args |-> [mu |-> mu, sigma |-> sigma]]
            /\ result' = Outcome(r)
            /\ prior' = Handed(r)

NewBeta ==
    /\ call.op = "none"
    /\ \E a, b \in Params :
        LET r == Beta_init(a, b)
        IN  /\ call' = [op |-> "init", cls |-> "Beta", args |-> [a |-> a, b |-> b]]
            /\ result' = Outcome(r)
            /\ prior' = Handed(r)

NewUniform ==
    /\ call.op = "none"
    /\ \E lower, upper \in Scalars :
        LET r == Uniform_init(lower, upper)
        IN  /\ call' = [op |-> "init", cls |-> "Uniform",
                        args |-> [lower |-> lower, upper |-> upper]]
            /\ result' = Outcome(r)
            /\ prior' = Handed(r)

\* prior.logp(x)
Logp ==
    /\ prior # NoPrior
    /\ \E x \in Inputs :
        LET r == logp(prior, x)
        IN  /\ call' = [op |-> "logp", x |-> x]
            /\ result' = Outcome(r)
            /\ prior' = r.self

\* prior.sample(shape)
Sample ==
    /\ prior # NoPrior
    /\ \E shape \in Shapes :
        \E r \in sample(prior, shape) :
            /\ call' = [op |-> "sample", shape |-> shape]
            /\ result' = Outcome(r)
            /\ prior' = r.self

\* str(prior)
Str ==
    /\ prior # NoPrior
    /\ LET r == str(prior)
       IN  /\ call' = [op |-> "str"]
           /\ result' = Outcome(r)
           /\ prior' = r.self

Next ==
    \/ NewExponential
    \/ NewGaussian
    \/ NewLogNormal
    \/ NewGamma
    \/ NewInverseGamma
    \/ NewLaplace
    \/ NewBeta
    \/ NewUniform
    \/ Logp
    \/ Sample
    \/ Str

Spec == Init /\ [][Next]_vars

(***************************************************************************)
(* Properties.                                                             *)
(***************************************************************************)
IsInit(cls) == call.op = "init" /\ call.cls = cls

IsGammaInit == call.op = "init" /\ call.cls \in {"Gamma", "InverseGamma"}

\* every entry of a stored array is a number > 0
Positive(a) == \A i \in 1..Len(a) : a[i].t = "num" /\ a[i].n > 0

\* C1: constructing an Exponential with a scalar rate <= 0 raises from the
\* constructor and hands no object to the caller; with a scalar rate > 0 it
\* succeeds and the object stores that rate (as a one-entry array).
C1_ExponentialRate ==
    (IsInit("Exponential") /\ call.args.rate.t = "num") =>
        IF RLeq(call.args.rate, Num(0))
        THEN result.status = "raise" /\ prior = NoPrior
        ELSE /\ result.status = "ok"
             /\ prior = [cls |-> "Exponential", rate |-> <<call.args.rate>>]

C1_Witness ==
    /\ IsInit("Exponential")
    /\ call.args.rate = Num(0)
    /\ result.status = "raise"
    /\ prior = NoPrior

\* C2: a Gamma or InverseGamma construction that supplies mu and var together
\* with a shape or a scale fails (the assertion) and yields no object.
C2_MutuallyExclusive ==
    (/\ IsGammaInit
     /\ call.args.mu # None /\ call.args.var # None
     /\ (call.args.shape # None \/ call.args.scale # None)) =>
        /\ result.status = "raise"
        /\ result.exc = "AssertionError"
        /\ prior = NoPrior

C2_Witness ==
    /\ IsInit("Gamma")
    /\ call.args.mu = Num(2) /\ call.args.var = Num(1)
    /\ call.args.shape = Num(1) /\ call.args.scale = None
    /\ result.status = "raise"

\* the domain constraints of each family, on the stored parameters
DomainHolds(p) ==
    CASE p.cls = "Exponential" -> Positive(p.rate)
      [] p.cls \in {"Gaussian", "LogNormal"} -> Positive(p.var)
      [] p.cls \in {"Gamma", "InverseGamma"} -> Positive(p.shape) /\ Positive(p.scale)
      [] p.cls = "Laplace" -> Positive(p.sigma)
      [] p.cls = "Beta" -> Positive(p.a) /\ Positive(p.b)
      [] p.cls = "Uniform" -> RLt(p.lower, p.upper)

\* C3 as stated: every constructed prior holds parameters that satisfy the
\* domain constraints of its family.
C3_DomainHolds == prior # NoPrior => DomainHolds(prior)

\* C3 as amended: every constructed Exponential prior holds a rate > 0, at
\* construction and after any method call; the Gaussian, LogNormal, Laplace,
\* Beta and Uniform constructors test nothing and always succeed.
C3_ExponentialDomain ==
    /\ prior.cls = "Exponential" => Positive(prior.rate)
    /\ (call.op = "init"
        /\ call.cls \in {"Gaussian", "LogNormal", "Laplace", "Beta", "Uniform"}) =>
            result.status = "ok" /\ prior # NoPrior

C3_Witness ==
    /\ prior.cls = "Exponential"
    /\ prior.rate = <<Rat(1, 2)>>
    /\ call.op = "sample"

\* C4: logp on a constructed prior of any of the eight variants completes and
\* returns, whatever the input.
C4_LogpCompletes == call.op = "logp" => result.status = "ok"

\* C5: a Gamma or InverseGamma built from mu and var alone (both non-zero for
\* Gamma, var non-zero for InverseGamma) stores the converted parameters: Gamma
\* shape = mu^2/var, scale = var/mu (mu=2, var=1 gives 4 and 1/2); InverseGamma
\* shape = 2 + mu^2/var, scale = mu*(1 + mu^2/var).
C5_MeanVarConversion ==
    (/\ IsGammaInit
     /\ call.args.shape = None /\ call.args.scale = None
     /\ call.args.mu # None /\ call.args.var # None
     /\ call.args.var.n # 0
     /\ (call.cls = "Gamma" => call.args.mu.n # 0)) =>
        LET mu == call.args.mu
            var == call.args.var
            q == RDiv(RMul(mu, mu), var)
        IN  /\ result.status = "ok"
            /\ prior.cls = call.cls
            /\ call.cls = "Gamma" =>
                /\ prior.shape = <<q>>
                /\ prior.scale = <<RDiv(var, mu)>>
                /\ (mu = Num(2) /\ var = Num(1)) =>
                      prior.shape = <<Num(4)>> /\ prior.scale = <<Rat(1, 2)>>
            /\ call.cls = "InverseGamma" =>
                /\ prior.shape = <<RAdd(Num(2), q)>>
                /\ prior.scale = <<RMul(mu, RAdd(Num(1), q))>>

C5_Witness ==
    /\ IsInit("Gamma")
    /\ call.args = [shape |-> None, scale |-> None, mu |-> Num(2), var |-> Num(1)]
    /\ prior = [cls |-> "Gamma", shape |-> <<Num(4)>>, scale |-> <<Rat(1, 2)>>]

\* C6: Uniform.logp(x) is -log(upper - lower) times the number of entries of
\* x, and every input with as many entries gives the same result (lower=0,
\* upper=2, three entries: 3 * (-log 2)).
C6_UniformLogp ==
    (call.op = "logp" /\ prior.cls = "Uniform") =>
        /\ result.status = "ok"
        /\ result.ret = LogTerm(Num(-Len(call.x)), RSub(prior.upper, prior.lower))
        /\ \A y \in Inputs :
              Len(y) = Len(call.x) => Outcome(logp(prior, y)) = result
        /\ (prior.lower = Num(0) /\ prior.upper = Num(2) /\ Len(call.x) = 3) =>
              result.ret = LogTerm(Num(-3), Num(2))

C6_Witness ==
    /\ call.op = "logp"
    /\ prior = [cls |-> "Uniform", lower |-> Num(0), upper |-> Num(2)]
    /\ call.x = <<Num(-1), Num(1), Num(-1)>>
    /\ result.ret = LogTerm(Num(-3), Num(2))

\* C7: once constructed, a prior is never changed: no step (logp, sample,
\* __str__) alters a stored parameter.
C7_NoMutation == [][prior # NoPrior => prior' = prior]_vars

C7_Witness ==
    /\ call.op = "logp"
    /\ prior = [cls |-> "Exponential", rate |-> <<Num(2)>>]

\* C8: sample(shape) returns an array of exactly the requested shape.
C8_SampleShape ==
    call.op = "sample" =>
        result.status = "ok" /\ result.ret.shape = call.shape

\* C9: for mu > 0 and var > 0, Gamma(mu, var) stores shape*scale = mu and
\* shape*scale^2 = var, and InverseGamma(mu, var) stores shape > 2,
\* scale/(shape-1) = mu and scale^2/((shape-1)^2 (shape-2)) = var.
C9_MeanVarFaithful ==
    (/\ IsGammaInit
     /\ call.args.shape = None /\ call.args.scale = None
     /\ call.args.mu # None /\ call.args.var # None
     /\ RLt(Num(0), call.args.mu) /\ RLt(Num(0), call.args.var)) =>
        /\ result.status = "ok"
        /\ Len(prior.shape) = 1 /\ Len(prior.scale) = 1
        /\ LET mu == call.args.mu
               var == call.args.var
               k == prior.shape[1]
               th == prior.scale[1]
               k1 == RSub(k, Num(1))
               k2 == RSub(k, Num(2))
           IN  /\ call.cls = "Gamma" =>
                    /\ RMul(k, th) = mu
                    /\ RMul(k, RMul(th, th)) = var
               /\ call.cls = "InverseGamma" =>
                    /\ RLt(Num(2), k)
                    /\ RDiv(th, k1) = mu
                    /\ RDiv(RMul(th, th), RMul(RMul(k1, k1), k2)) = var

C9_Witness ==
    /\ IsInit("InverseGamma")
    /\ call.args = [shape |-> None, scale |-> None, mu |-> Rat(1, 2), var |-> Num(2)]
    /\ prior = [cls |-> "InverseGamma", shape |-> <<Rat(17, 8)>>, scale |-> <<Rat(9, 16)>>]

\* C10: with exactly one of mu and var supplied, a Gamma or InverseGamma
\* construction raises nothing and stores the shape and scale arguments as
\* passed (an absent one as nan), whether or not shape/scale were supplied.
C10_LoneMeanOrVar ==
    (IsGammaInit /\ ((call.args.mu = None) # (call.args.var = None))) =>
        /\ result.status = "ok"
        /\ prior = [cls |-> call.cls,
                    shape |-> atleast_1d(call.args.shape),
                    scale |-> atleast_1d(call.args.scale)]

C10_Witness ==
    /\ IsInit("InverseGamma")
    /\ call.args = [shape |-> Num(2), scale |-> None, mu |-> Num(1), var |-> None]
    /\ prior = [cls |-> "InverseGamma", shape |-> <<Num(2)>>, scale |-> <<NaN>>]

====
